---------------------------- MODULE Spec2Model ----------------------------
(***************************************************************************)
(* A model of st_logger (st_logger/st_logger.py): the bounded LogBuffer,   *)
(* the ConsoleInterceptor that mirrors writes and enqueues them, the       *)
(* keyword severity classifier, and the StLoggerManager lifecycle with its *)
(* background worker and its sinks.                                        *)
(*                                                                         *)
(* Four specifications share the module:                                   *)
(*   SpecSev  the pure function parse_severity on bounded inputs           *)
(*   SpecSeq  LogBuffer used by one thread, a call at a time               *)
(*   Spec     two interceptors and two drainers on one LogBuffer, every    *)
(*            queue operation a separate step                              *)
(*   SpecMgr  StLoggerManager: start, stop, the worker, the sinks          *)
(***************************************************************************)
EXTENDS Integers, Sequences, FiniteSets, TLC

VARIABLES
    \* ---- SpecSev
    sevMsg,        \* the message handed to parse_severity
    sevOut,        \* its result, 0 before the call
    \* ---- LogBuffer (SpecSeq, Spec)
    queue,         \* LogBuffer.buffer: the queue.Queue's items, oldest first
    nextId,        \* identity of the next write() call
    \* ---- SpecSeq: history of the calls made by the one thread
    seqLog,        \* non-blank messages written since the last get_all
    seqLogAt,      \* seqLog at the moment of the last get_all
    seqResult,     \* what the last get_all returned
    seqDone,       \* a get_all has been made
    \* ---- Spec: threads writing through the interceptors
    pc,            \* position of each producer inside ConsoleInterceptor.write
    cur,           \* the message of the producer's current call
    calls,         \* history, per write call id: text, mirror, outcome, retval
    enqOrder,      \* history: ids in the order put_nowait admitted them
    streamRaises,  \* the wrapped streams' write() and flush() raise
    flushOutcome,  \* history: how the last flush of a raising stream ended
    \* ---- Spec: threads calling get_all
    dpc,           \* position of each drainer inside get_all
    dmsgs,         \* get_all's local list `messages`
    taken,         \* history, per id: how many times a get_all appended it
    quietStart,    \* per drainer: its call began after a get_all returned and
                   \* no put_nowait has succeeded since
    noPutSince,    \* no put_nowait has succeeded since some get_all returned
    \* ---- SpecMgr: sublime's settings, the logging module, the process
    settings,          \* the live values of STLogger.sublime-settings
    handlers,          \* logging.getLogger('st_logger').handlers
    sinkOpen,          \* per handler object: constructed and not closed
    closeCalls,        \* history, per handler object: calls of close()
    emitted,           \* history, per handler object: the records it was given
    sys_stream,        \* sys.stdout and sys.stderr
    \* ---- SpecMgr: the fields of StLoggerManager
    logger,            \* self.logger is set
    file_handler,      \* self.file_handler
    syslog_handler,    \* self.syslog_handler
    processing_thread, \* self.processing_thread
    stop_event,        \* self.stop_event
    original,          \* self.original_stdout, self.original_stderr
    interceptor,       \* self.interceptor_stdout, self.interceptor_stderr
    enabled,           \* self.enabled
    \* ---- SpecMgr: threads
    wpc,               \* position of each worker thread inside process_logs
    wbatch,            \* process_logs' local `messages`, what is left of it
    mpc,               \* position of the host's thread inside stop()
    mop,               \* the entry point the host's thread is in
    nStarts,           \* number of start() calls; the call numbered g makes
                       \* worker g and the handler objects of generation g
    nStops,            \* number of stop() calls
    \* ---- SpecMgr: history of the lifecycle calls
    lastOp,            \* the last call that returned: "start" or "stop"
    prevWasStop,       \* the call before the present (or last) stop was a stop
    stopCloses,        \* close() calls made by the present (or last) stop
    preStop,           \* the lifecycle state when the present (or last) stop began
    \* ---- SpecSink: the state of the outside world the sinks write to
    sinkFails,         \* the kinds of sink whose emit meets an I/O error
    \* ---- SpecRel: two threads of the host, each calling reload()
    rpc,               \* position of each caller inside reload()
    rgen               \* per caller: the number its start() took

sevVars == <<sevMsg, sevOut>>
bufVars == <<queue, nextId>>
seqVars == <<seqLog, seqLogAt, seqResult, seqDone>>
prodVars == <<pc, cur, calls, enqOrder, streamRaises, flushOutcome>>
drainVars == <<dpc, dmsgs, taken, quietStart, noPutSince>>
envVars == <<settings, handlers, sinkOpen, closeCalls, emitted, sys_stream>>
selfVars == <<logger, file_handler, syslog_handler, processing_thread,
              stop_event, original, interceptor, enabled>>
threadVars == <<wpc, wbatch, mpc, mop, nStarts, nStops>>
histVars == <<lastOp, prevWasStop, stopCloses, preStop>>
faultVars == <<sinkFails>>
relVars == <<rpc, rgen>>
mgrVars == <<envVars, selfVars, threadVars, histVars, faultVars, relVars>>
vars == <<sevVars, bufVars, seqVars, prodVars, drainVars, mgrVars>>

-----------------------------------------------------------------------------
(* Text.  A message is a sequence of one-character strings.                *)

LowerCs == <<"a","b","c","d","e","f","g","h","i","j","k","l","m",
             "n","o","p","q","r","s","t","u","v","w","x","y","z">>
UpperCs == <<"A","B","C","D","E","F","G","H","I","J","K","L","M",
             "N","O","P","Q","R","S","T","U","V","W","X","Y","Z">>

\* str.upper() on one character
UpperChar(c) ==
    IF \E i \in 1..Len(LowerCs) : LowerCs[i] = c
    THEN UpperCs[CHOOSE i \in 1..Len(LowerCs) : LowerCs[i] = c]
    ELSE c

\* message.upper()
Upper(s) == [i \in 1..Len(s) |-> UpperChar(s[i])]

IsSpace(c) == c \in {" ", "\n", "\t"}

RECURSIVE LStrip(_)
LStrip(s) == IF s # <<>> /\ IsSpace(Head(s)) THEN LStrip(Tail(s)) ELSE s

RECURSIVE RStrip(_)
RStrip(s) ==
    IF s # <<>> /\ IsSpace(s[Len(s)]) THEN RStrip(SubSeq(s, 1, Len(s) - 1)) ELSE s

\* message.strip()
Strip(s) == RStrip(LStrip(s))

\* Python's `x in s` for strings
Contains(s, x) ==
    \E i \in 0..(Len(s) - Len(x)) : SubSeq(s, i + 1, i + Len(x)) = x

\* `message and message.strip()` without the strip
NonBlank_EmptyOnly(s) == s # <<>>

\* the truth value of `message and message.strip()`
NonBlank(s) == s # <<>> /\ Strip(s) # <<>>

-----------------------------------------------------------------------------
(* Severity: parse_severity and the levels of the logging module.          *)

DEBUG == 10
INFO == 20
WARNING == 30
ERROR == 40
CRITICAL == 50

K_CRITICAL == <<"C","R","I","T","I","C","A","L">>
K_FATAL == <<"F","A","T","A","L">>
K_ERROR == <<"E","R","R","O","R">>
K_EXCEPTION == <<"E","X","C","E","P","T","I","O","N">>
K_TRACEBACK == <<"T","R","A","C","E","B","A","C","K">>
K_WARNING == <<"W","A","R","N","I","N","G">>
K_WARN == <<"W","A","R","N">>
K_DEBUG == <<"D","E","B","U","G">>

\* mutant: the ERROR keywords are tried before the CRITICAL ones
parse_severity_ErrorFirst(message) ==
    LET message_upper == Upper(message) IN
    IF \E x \in {K_ERROR, K_EXCEPTION, K_TRACEBACK} : Contains(message_upper, x)
    THEN ERROR
    ELSE IF \E x \in {K_CRITICAL, K_FATAL} : Contains(message_upper, x)
    THEN CRITICAL
    ELSE IF \E x \in {K_WARNING, K_WARN} : Contains(message_upper, x)
    THEN WARNING
    ELSE IF Contains(message_upper, K_DEBUG)
    THEN DEBUG
    ELSE INFO

parse_severity(message) ==
    LET message_upper == Upper(message) IN
    IF \E x \in {K_CRITICAL, K_FATAL} : Contains(message_upper, x)
    THEN CRITICAL
    ELSE IF \E x \in {K_ERROR, K_EXCEPTION, K_TRACEBACK} : Contains(message_upper, x)
    THEN ERROR
    ELSE IF \E x \in {K_WARNING, K_WARN} : Contains(message_upper, x)
    THEN WARNING
    ELSE IF Contains(message_upper, K_DEBUG)
    THEN DEBUG
    ELSE INFO

-----------------------------------------------------------------------------
(* SpecSev: parse_severity applied to bounded inputs.                      *)

MaxTokens == 2

Tokens ==
    { K_CRITICAL, <<"f","a","t","a","l">>, <<"E","r","r","o","r">>,
      <<"e","x","c","e","p","t","i","o","n">>, K_TRACEBACK, K_WARNING,
      <<"w","a","r","n">>, <<"d","e">>, <<"b","u","g">>, K_DEBUG,
      <<"i","n","f","o">>, <<" ">>, <<"x">> }

RECURSIVE TokenStrings(_)
TokenStrings(n) ==
    IF n = 0 THEN { <<>> }
    ELSE LET shorter == TokenStrings(n - 1) IN
         shorter \cup { s \o t : s \in shorter, t \in Tokens }

SevInputs == TokenStrings(MaxTokens)

SevInit ==
    /\ sevMsg \in SevInputs
    /\ sevOut = 0

\* severity = self.parse_severity(message)
Classify ==
    /\ sevOut = 0
    /\ sevOut' = parse_severity(sevMsg)
    /\ UNCHANGED sevMsg

\* the next message of the batch
NextMessage ==
    /\ sevOut # 0
    /\ sevMsg' \in SevInputs
    /\ sevOut' = 0

-----------------------------------------------------------------------------
(* LogBuffer: queue.Queue(maxsize=max_size) and the two methods.           *)

Capacity == 2

\* mutant: a put that does not look at maxsize
put_nowait_Unbounded(q, item) == [full |-> FALSE, q |-> Append(q, item)]

\* Queue.put_nowait: raises queue.Full when qsize() >= maxsize
put_nowait(q, item) ==
    IF Len(q) >= Capacity
    THEN [full |-> TRUE, q |-> q]
    ELSE [full |-> FALSE, q |-> Append(q, item)]

\* mutant: a get that returns the oldest item and leaves it in the queue
get_nowait_Peek(q) ==
    IF q = <<>>
    THEN [empty |-> TRUE, q |-> q]
    ELSE [empty |-> FALSE, item |-> Head(q), q |-> q]

\* Queue.get_nowait: raises queue.Empty on an empty queue, else pops the oldest
get_nowait(q) ==
    IF q = <<>>
    THEN [empty |-> TRUE, q |-> q]
    ELSE [empty |-> FALSE, item |-> Head(q), q |-> Tail(q)]

\* mutant: on Full the oldest entry is evicted and the new message is not put
LogBuffer_write_NoReput(q, m) ==
    IF NonBlank(m.text)
    THEN LET r1 == put_nowait(q, m) IN
         IF ~r1.full THEN [q |-> r1.q, raised |-> FALSE]
         ELSE [q |-> get_nowait(q).q, raised |-> FALSE]
    ELSE [q |-> q, raised |-> FALSE]

\* LogBuffer.write run by one thread with nothing in between its steps
LogBuffer_write(q, m) ==
    IF NonBlank(m.text)
    THEN LET r1 == put_nowait(q, m) IN
         IF ~r1.full THEN [q |-> r1.q, raised |-> FALSE]
         ELSE LET g == get_nowait(q) IN
              IF g.empty THEN [q |-> q, raised |-> FALSE]
              ELSE LET r2 == put_nowait(g.q, m) IN
                   [q |-> r2.q, raised |-> r2.full]
    ELSE [q |-> q, raised |-> FALSE]

\* LogBuffer.get_all run by one thread with nothing in between its steps
RECURSIVE LogBuffer_get_all(_, _)
LogBuffer_get_all(q, messages) ==
    IF q = <<>> THEN [messages |-> messages, q |-> q]
    ELSE LET g == get_nowait(q) IN
         IF g.empty THEN [messages |-> messages, q |-> q]
         ELSE LogBuffer_get_all(g.q, Append(messages, g.item))

-----------------------------------------------------------------------------
(* SpecSeq: one thread calls write and get_all, one call at a time.        *)

MaxSeqWrites == 4

SeqTexts == { <<>>, <<" ">>, <<"a">>, <<"b", "\n">> }

SeqInit ==
    /\ queue = <<>>
    /\ nextId = 1
    /\ seqLog = <<>>
    /\ seqLogAt = <<>>
    /\ seqResult = <<>>
    /\ seqDone = FALSE

SeqWrite ==
    /\ nextId <= MaxSeqWrites
    /\ \E t \in SeqTexts :
         LET m == [id |-> nextId, text |-> t]
             r == LogBuffer_write(queue, m)
         IN  /\ queue' = r.q
             /\ seqLog' = IF NonBlank(t) THEN Append(seqLog, m) ELSE seqLog
    /\ nextId' = nextId + 1
    /\ UNCHANGED <<seqLogAt, seqResult, seqDone>>

SeqGetAll ==
    LET r == LogBuffer_get_all(queue, <<>>) IN
    /\ queue' = r.q
    /\ seqResult' = r.messages
    /\ seqLogAt' = seqLog
    /\ seqLog' = <<>>
    /\ seqDone' = TRUE
    /\ UNCHANGED nextId

-----------------------------------------------------------------------------
(* Spec: the stdout and the stderr interceptor, each with a lock of its    *)
(* own, write into one LogBuffer while two threads call get_all (the       *)
(* worker, and stop() after its bounded join).  LogBuffer.lock is never    *)
(* taken by the code, so every queue operation is a step of its own; what  *)
(* a thread does between two queue operations touches nothing shared and   *)
(* belongs to the step of the operation before it.                         *)

MaxWrites == 4

Producers == { "stdout", "stderr" }
Drainers == { "worker", "stop" }
Ids == 1..MaxWrites

Texts == { <<"\n">>, <<"x", "\n">> }

\* the messages of the runs that look at blank messages: the empty one, one
\* of whitespace only, one with text
BlankRunTexts == { <<>>, <<" ", "\t", "\n">>, <<"x", "\n">> }

NoMsg == [id |-> 0, text |-> <<>>]

NoCall ==
    [text |-> <<>>, mirror |-> <<>>, streamRaised |-> FALSE,
     outcome |-> "none", retval |-> -1]

BufInit ==
    /\ queue = <<>>
    /\ nextId = 1
    /\ pc = [p \in Producers |-> "idle"]
    /\ cur = [p \in Producers |-> NoMsg]
    /\ calls = [i \in Ids |-> NoCall]
    /\ enqOrder = <<>>
    /\ dpc = [d \in Drainers |-> "idle"]
    /\ dmsgs = [d \in Drainers |-> <<>>]
    /\ taken = [i \in Ids |-> 0]
    /\ quietStart = [d \in Drainers |-> FALSE]
    /\ noPutSince = FALSE

\* the wrapped streams either work or raise on every call (a closed console)
StreamInit == streamRaises \in BOOLEAN /\ flushOutcome = "none"

\* return len(message)
Returned(c, m) == [c EXCEPT !.outcome = "returned", !.retval = Len(m.text)]

\* ConsoleInterceptor.write up to its first queue operation: `with
\* self._lock` (the interceptor's own lock, so the producer of one
\* interceptor never waits for the other's), self.original_stream.write
\* (message) inside try/except Exception, and the two `if message and
\* message.strip()` tests (the interceptor's and LogBuffer.write's), which
\* read only the argument.  A blank message returns at once.
CallWriteOf(p, texts) ==
    /\ pc[p] = "idle"
    /\ nextId <= MaxWrites
    /\ \E t \in texts :
         LET m == [id |-> nextId, text |-> t]
             c == [NoCall EXCEPT !.text = t, !.mirror = <<t>>,
                                 !.streamRaised = streamRaises,
                                 !.outcome = "pending"]
         IN  IF NonBlank(t)
             THEN /\ cur' = [cur EXCEPT ![p] = m]
                  /\ calls' = [calls EXCEPT ![nextId] = c]
                  /\ pc' = [pc EXCEPT ![p] = "put"]
             ELSE /\ calls' = [calls EXCEPT ![nextId] = Returned(c, m)]
                  /\ UNCHANGED <<cur, pc>>
    /\ nextId' = nextId + 1
    /\ UNCHANGED <<queue, enqOrder, streamRaises, flushOutcome, seqVars, sevVars, mgrVars, drainVars>>

CallWrite(p) == CallWriteOf(p, Texts)

\* what a successful put_nowait changes, and the return that follows it
Admit(p, q) ==
    /\ queue' = q
    /\ enqOrder' = Append(enqOrder, cur[p].id)
    /\ noPutSince' = FALSE
    /\ quietStart' = [d \in Drainers |-> FALSE]
    /\ calls' = [calls EXCEPT ![cur[p].id] = Returned(@, cur[p])]
    /\ pc' = [pc EXCEPT ![p] = "idle"]
    /\ cur' = [cur EXCEPT ![p] = NoMsg]

\* self.buffer.put_nowait(message), the first one
Put(p) ==
    /\ pc[p] = "put"
    /\ LET r == put_nowait(queue, cur[p]) IN
       IF r.full
       THEN /\ pc' = [pc EXCEPT ![p] = "evict"]
            /\ UNCHANGED <<queue, enqOrder, noPutSince, quietStart, calls, cur>>
       ELSE Admit(p, r.q)
    /\ UNCHANGED <<nextId, streamRaises, flushOutcome, seqVars, sevVars, mgrVars, dpc, dmsgs, taken>>

\* except queue.Full: self.buffer.get_nowait(); on queue.Empty: pass, and
\* the call returns without the message
Evict(p) ==
    /\ pc[p] = "evict"
    /\ LET g == get_nowait(queue) IN
       IF g.empty
       THEN /\ calls' = [calls EXCEPT ![cur[p].id] = Returned(@, cur[p])]
            /\ pc' = [pc EXCEPT ![p] = "idle"]
            /\ cur' = [cur EXCEPT ![p] = NoMsg]
            /\ UNCHANGED queue
       ELSE /\ queue' = g.q
            /\ pc' = [pc EXCEPT ![p] = "reput"]
            /\ UNCHANGED <<calls, cur>>
    /\ UNCHANGED <<nextId, enqOrder, streamRaises, flushOutcome, seqVars, sevVars, mgrVars, drainVars>>

\* self.buffer.put_nowait(message) inside `except queue.Full`: only queue.Empty
\* is caught around it, so a queue.Full leaves LogBuffer.write and then
\* ConsoleInterceptor.write, which has no handler around log_buffer.write
Reput(p) ==
    /\ pc[p] = "reput"
    /\ LET r == put_nowait(queue, cur[p]) IN
       IF r.full
       THEN /\ calls' = [calls EXCEPT ![cur[p].id].outcome = "raised"]
            /\ pc' = [pc EXCEPT ![p] = "idle"]
            /\ cur' = [cur EXCEPT ![p] = NoMsg]
            /\ UNCHANGED <<queue, enqOrder, noPutSince, quietStart>>
       ELSE Admit(p, r.q)
    /\ UNCHANGED <<nextId, streamRaises, flushOutcome, seqVars, sevVars, mgrVars, dpc, dmsgs, taken>>

\* ConsoleInterceptor.flush: self.original_stream.flush() inside try/except
\* Exception; it takes no lock and touches neither the buffer nor a call.
\* flushOutcome keeps how the last flush of a raising stream ended; a flush
\* of a working stream changes nothing that is kept here.
Flush(p) ==
    /\ pc[p] = "idle"
    /\ flushOutcome' = IF streamRaises THEN "returned" ELSE flushOutcome
    /\ UNCHANGED <<bufVars, pc, cur, calls, enqOrder, streamRaises,
                   seqVars, sevVars, mgrVars, drainVars>>

\* `while not self.buffer.empty()`: on an empty queue, return messages
TestEmpty(d, msgs) ==
    /\ IF queue = <<>>
       THEN /\ dpc' = [dpc EXCEPT ![d] = "idle"]
            /\ noPutSince' = TRUE
       ELSE /\ dpc' = [dpc EXCEPT ![d] = "get"]
            /\ UNCHANGED noPutSince
    /\ dmsgs' = [dmsgs EXCEPT ![d] = msgs]

\* get_all is entered: messages = [], and the first test of the loop.
\* While a drainer is idle, dmsgs holds what its last call returned.
CallGetAll(d) ==
    /\ dpc[d] = "idle"
    /\ quietStart' = [quietStart EXCEPT ![d] = noPutSince]
    /\ TestEmpty(d, <<>>)
    /\ UNCHANGED <<bufVars, seqVars, sevVars, mgrVars, prodVars, taken>>

\* messages.append(...)
Collect(messages, item) == Append(messages, item)

\* messages.append(self.buffer.get_nowait()) and the next test of the loop;
\* on queue.Empty: break, return messages
Get(d) ==
    /\ dpc[d] = "get"
    /\ LET g == get_nowait(queue) IN
       IF g.empty
       THEN /\ dpc' = [dpc EXCEPT ![d] = "idle"]
            /\ noPutSince' = TRUE
            /\ UNCHANGED <<queue, taken, dmsgs>>
       ELSE /\ queue' = g.q
            /\ taken' = [taken EXCEPT ![g.item.id] = @ + 1]
            /\ dmsgs' = [dmsgs EXCEPT ![d] = Collect(@, g.item)]
            /\ dpc' = [dpc EXCEPT ![d] = "test"]
            /\ UNCHANGED noPutSince
    /\ UNCHANGED <<nextId, seqVars, sevVars, mgrVars, prodVars, quietStart>>

\* the test of the loop after an append
Test(d) ==
    /\ dpc[d] = "test"
    /\ TestEmpty(d, dmsgs[d])
    /\ UNCHANGED <<bufVars, seqVars, sevVars, mgrVars, prodVars, taken, quietStart>>

-----------------------------------------------------------------------------
(* SpecMgr: StLoggerManager.  The host's thread calls start, stop and      *)
(* reload one at a time and writes to sys.stdout and sys.stderr; every     *)
(* start that goes through begins a worker thread running process_logs.    *)
(* ConsoleInterceptor.write and get_all are single steps here: their       *)
(* interleavings are those of Spec.                                        *)

MaxStarts == 2
MaxStops == 2
MaxMsgs == 2

\* None, where a handler, a stream or a thread is expected
NoHandler == <<"none", 0>>
NoStream == [kind |-> "none"]
NoThread == 0
StreamNames == { "stdout", "stderr" }
Workers == 1..MaxStarts

\* the threads of the host that call into the plugin: the one that runs the
\* commands, and the one of set_timeout_async
Callers == { "main", "async" }

\* the stream the process had before any interception
Real(s) == [kind |-> "real", name |-> s]

\* ConsoleInterceptor(original_stream, self.log_buffer, stream_name)
ConsoleInterceptor(g, original_stream, s) ==
    [kind |-> "interceptor", gen |-> g, name |-> s, original_stream |-> original_stream]

\* the handler objects: one RotatingFileHandler and one SyslogUDPHandler per
\* setup_logger
FileHandler(g) == <<"file", g>>
SyslogHandler(g) == <<"syslog", g>>
Sinks == { FileHandler(g) : g \in Workers } \cup { SyslogHandler(g) : g \in Workers }

T_ERROR_VENDOR == <<"E","R","R","O","R"," ","v","e","n","d","o","r","\n">>
T_WARN == <<"w","a","r","n","\n">>
T_RELOADING == <<"r","e","l","o","a","d","i","n","g"," ","p","l","u","g","i","n"," ","x","\n">>
T_SKIPPED == <<"S","k","i","p","p","e","d"," ","1","0"," ","f","i","l","e","s","\n">>

MgrTexts == { T_ERROR_VENDOR, T_WARN, T_RELOADING, T_SKIPPED }

\* what start() and stop() print
T_STARTED == <<"S","T"," ","L","o","g","g","e","r",":"," ","S","t","a","r","t","e","d",
               " ","s","u","c","c","e","s","s","f","u","l","l","y">>
T_DISABLED == <<"S","T"," ","L","o","g","g","e","r",":"," ","P","l","u","g","i","n"," ",
                "d","i","s","a","b","l","e","d"," ","i","n"," ","s","e","t","t","i","n","g","s">>
T_STOPPED == <<"S","T"," ","L","o","g","g","e","r",":"," ","S","t","o","p","p","e","d">>

\* the exclusion rules of the settings file, as the test suite gives them
G_RELOADING == <<"r","e","l","o","a","d","i","n","g"," ","p","l","u","g","i","n"," ","*">>
P_VENDOR == <<"v","e","n","d","o","r">>
R_SKIPPED == <<"^","S","k","i","p","p","e","d"," ","\\d","+"," ","f","i","l","e","s","$">>

BaseSettings ==
    [enabled |-> TRUE, file_logging_enabled |-> TRUE, syslog_enabled |-> FALSE,
     min_severity_level |-> "DEBUG",
     exclude_wildcards |-> { G_RELOADING },
     exclude_patterns |-> { P_VENDOR },
     exclude_regex |-> { R_SKIPPED }]

\* the values STLogger.sublime-settings takes
Configs ==
    { BaseSettings,
      [BaseSettings EXCEPT !.syslog_enabled = TRUE, !.min_severity_level = "WARNING"],
      [BaseSettings EXCEPT !.enabled = FALSE] }

\* the settings of the runs that look at the sinks: both sinks enabled
SinkConfigs ==
    { [BaseSettings EXCEPT !.syslog_enabled = TRUE],
      [BaseSettings EXCEPT !.syslog_enabled = TRUE, !.min_severity_level = "WARNING"] }

\* the two kinds of sink
SinkKinds == { "file", "syslog" }

\* self.severity_map.get(min_severity, logging.DEBUG)
severity_map(name) ==
    CASE name = "DEBUG" -> DEBUG
      [] name = "INFO" -> INFO
      [] name = "WARNING" -> WARNING
      [] name = "ERROR" -> ERROR
      [] name = "CRITICAL" -> CRITICAL
      [] OTHER -> DEBUG

(* The exclusion filter of the specification (4.4).  st_logger.py holds no *)
(* code for it; these operators say what "matches an exclusion rule"       *)
(* means: shell-glob match of the whole text, substring, regular           *)
(* expression search (literals, ^, $, ., \d and the postfix + and * ).     *)

Digits == { "0","1","2","3","4","5","6","7","8","9" }

RECURSIVE fnmatch(_, _)
fnmatch(s, pat) ==
    IF pat = <<>> THEN s = <<>>
    ELSE IF Head(pat) = "*"
    THEN \E k \in 0..Len(s) : fnmatch(SubSeq(s, k + 1, Len(s)), Tail(pat))
    ELSE /\ s # <<>>
         /\ Head(pat) = "?" \/ Head(pat) = Head(s)
         /\ fnmatch(Tail(s), Tail(pat))

re_char(c, ch) == c = "." \/ (c = "\\d" /\ ch \in Digits) \/ c = ch

RECURSIVE re_here(_, _)
re_here(re, s) ==
    IF re = <<>> THEN TRUE
    ELSE IF Len(re) >= 2 /\ re[2] \in { "*", "+" }
    THEN \E k \in (IF re[2] = "+" THEN 1 ELSE 0)..Len(s) :
            /\ \A j \in 1..k : re_char(re[1], s[j])
            /\ re_here(SubSeq(re, 3, Len(re)), SubSeq(s, k + 1, Len(s)))
    ELSE IF re = <<"$">> THEN s = <<>>
    ELSE /\ s # <<>>
         /\ re_char(Head(re), Head(s))
         /\ re_here(Tail(re), Tail(s))

re_search(re, s) ==
    IF re # <<>> /\ Head(re) = "^"
    THEN re_here(Tail(re), s)
    ELSE \E k \in 0..Len(s) : re_here(re, SubSeq(s, k + 1, Len(s)))

MatchesExclusion(cfg, text) ==
    \/ \E g \in cfg.exclude_wildcards : fnmatch(text, g)
    \/ \E p \in cfg.exclude_patterns : Contains(text, p)
    \/ \E r \in cfg.exclude_regex : re_search(r, text)

\* StLoggerManager.__init__, and the module's `logger_manager =
\* StLoggerManager()`
MgrInit ==
    /\ settings \in Configs \cup SinkConfigs
    /\ handlers = {}
    /\ sinkOpen = [h \in Sinks |-> FALSE]
    /\ closeCalls = [h \in Sinks |-> 0]
    /\ emitted = [h \in Sinks |-> <<>>]
    /\ sys_stream = [s \in StreamNames |-> Real(s)]
    /\ logger = FALSE
    /\ file_handler = NoHandler
    /\ syslog_handler = NoHandler
    /\ processing_thread = NoThread
    /\ stop_event = FALSE
    /\ original = [s \in StreamNames |-> NoStream]
    /\ interceptor = [s \in StreamNames |-> NoStream]
    /\ enabled = FALSE
    /\ wpc = [w \in Workers |-> "unborn"]
    /\ wbatch = [w \in Workers |-> <<>>]
    /\ mpc = "idle"
    /\ mop = "none"
    /\ nStarts = 0
    /\ nStops = 0
    /\ lastOp = "none"
    /\ prevWasStop = FALSE
    /\ stopCloses = 0
    /\ preStop = <<>>
    /\ rpc = [c \in Callers |-> "idle"]
    /\ rgen = [c \in Callers |-> 0]

\* what start, stop and reload can change of the manager and the process
LifeState ==
    <<enabled, sys_stream, stop_event, processing_thread, logger,
      file_handler, syslog_handler, handlers, sinkOpen>>

\* the user edits the settings file between two calls of the host's thread:
\* sublime's Settings object is live, and the workers read it as they run
EditSettings ==
    /\ mpc = "idle"
    /\ settings' \in Configs \ { settings }
    /\ UNCHANGED <<handlers, sinkOpen, closeCalls, emitted, sys_stream,
                   selfVars, threadVars, histVars, bufVars>>

\* stream.write(message), as it changes the buffer.  Through an interceptor:
\* ConsoleInterceptor.write, which first writes to the stream it wraps (that
\* may be an interceptor too) and then calls LogBuffer.write.  A write to a
\* real stream changes nothing here.
RECURSIVE stream_write(_, _, _)
stream_write(stream, q, m) ==
    IF stream.kind = "interceptor"
    THEN LogBuffer_write(stream_write(stream.original_stream, q, m), m).q
    ELSE q

\* print(text) with sys.stdout being `out`: out.write(text), then
\* out.write("\n"), which is blank and reaches no buffer.  A captured message
\* takes the next identity.
print(out, text) ==
    IF out.kind = "interceptor"
    THEN /\ queue' = stream_write(out, queue, [id |-> nextId, text |-> text])
         /\ nextId' = nextId + 1
    ELSE UNCHANGED <<queue, nextId>>

\* the host writes to sys.stdout or sys.stderr
HostWrite ==
    /\ nextId <= MaxMsgs
    /\ \E s \in StreamNames, t \in MgrTexts : print(sys_stream[s], t)
    /\ UNCHANGED mgrVars

\* every text that is written to the streams
WrittenTexts == MgrTexts \cup { T_STARTED, T_DISABLED, T_STOPPED }

\* self.parse_severity(message), tabulated over the texts written
severity_of == [t \in WrittenTexts |-> parse_severity(t)]

\* "the message matches an exclusion rule of the settings", tabulated
excluded_of == [c \in Configs \cup SinkConfigs |-> [t \in WrittenTexts |-> MatchesExclusion(c, Strip(t))]]

\* the record self.logger.log(severity, message.strip()) makes.  It keeps
\* what the settings and the logger's handlers were then.
LogRecord(m, via) ==
    [id |-> m.id, level |-> severity_of[m.text],
     min |-> severity_map(settings.min_severity_level),
     excluded |-> excluded_of[settings][m.text], via |-> via,
     sinks |-> handlers, failed |-> FALSE]

\* mutant: an I/O error of the sink leaves emit
Handler_emit_Raises(h) == h[1] \in sinkFails

\* an exception leaves handler.emit(record).  SyslogUDPHandler.emit calls
\* SysLogHandler.emit inside `except (socket.error, OSError): pass`; the
\* emit of both library handlers runs inside try/except Exception and hands
\* the error to handleError.  Nothing leaves emit, whatever the sink does.
Handler_emit(h) == FALSE

\* logger.handlers as a list: addHandler's order, the file handler first
handler_list ==
    LET kind(k) == { h \in handlers : h[1] = k }
        one(hs) == IF hs = {} THEN <<>> ELSE << CHOOSE h \in hs : TRUE >>
    IN  one(kind("file")) \o one(kind("syslog"))

\* Logger.callHandlers: emit is called on one handler after the other; an
\* exception that leaves an emit ends the walk.  em[h] keeps every record
\* h.emit was called with, and whether the sink failed on it.
RECURSIVE callHandlers(_, _, _)
callHandlers(em, rec, hs) ==
    IF hs = <<>> THEN [em |-> em, raised |-> FALSE]
    ELSE LET h == Head(hs)
             called == [em EXCEPT ![h] =
                           Append(@, [rec EXCEPT !.failed = h[1] \in sinkFails])]
         IN  IF Handler_emit(h)
             THEN [em |-> called, raised |-> TRUE]
             ELSE callHandlers(called, rec, Tail(hs))

\* self.logger.log(severity, message.strip())
logger_log(em, m, via) == callHandlers(em, LogRecord(m, via), handler_list)

\* setup_logger: getLogger, handlers.clear(), then each handler the settings
\* enable is constructed and added.  The constructors are taken to succeed
\* (the directory can be made, the socket opens).
setup_logger(g) ==
    LET made == (IF settings.file_logging_enabled THEN { FileHandler(g) } ELSE {})
                  \cup (IF settings.syslog_enabled THEN { SyslogHandler(g) } ELSE {})
    IN  /\ logger' = TRUE
        /\ file_handler' = IF settings.file_logging_enabled
                           THEN FileHandler(g) ELSE file_handler
        /\ syslog_handler' = IF settings.syslog_enabled
                             THEN SyslogHandler(g) ELSE syslog_handler
        /\ handlers' = made
        /\ sinkOpen' = [h \in Sinks |-> IF h \in made THEN TRUE ELSE sinkOpen[h]]

\* start_interception after its test of self.enabled: the streams of the
\* process are recorded and replaced, and self.enabled is set
install(g) ==
    /\ original' = sys_stream
    /\ interceptor' = [s \in StreamNames |-> ConsoleInterceptor(g, sys_stream[s], s)]
    /\ sys_stream' = interceptor'
    /\ enabled' = TRUE

\* start_interception without its test of self.enabled
start_interception_Unguarded(g) == install(g)

start_interception(g) ==
    IF enabled
    THEN UNCHANGED <<original, interceptor, sys_stream, enabled>>
    ELSE install(g)

\* stop_interception that clears self.enabled and leaves the streams
stop_interception_NoRestore ==
    IF ~enabled
    THEN UNCHANGED <<sys_stream, enabled>>
    ELSE /\ UNCHANGED sys_stream
         /\ enabled' = FALSE

stop_interception ==
    IF ~enabled
    THEN UNCHANGED <<sys_stream, enabled>>
    ELSE /\ sys_stream' = [s \in StreamNames |->
                             IF original[s] # NoStream THEN original[s] ELSE sys_stream[s]]
         /\ enabled' = FALSE

\* the body of start(): load_settings, the enabled test and its print, or
\* setup_logger, start_interception, stop_event.clear(), the new thread and
\* the print that follows
start ==
    /\ nStarts' = nStarts + 1
    /\ IF ~settings.enabled
       THEN /\ print(sys_stream["stdout"], T_DISABLED)
            /\ UNCHANGED <<handlers, sinkOpen, sys_stream, selfVars, wpc>>
       ELSE LET g == nStarts + 1 IN
            /\ setup_logger(g)
            /\ start_interception(g)
            /\ stop_event' = FALSE
            /\ processing_thread' = g
            /\ wpc' = [wpc EXCEPT ![g] = "top"]
            /\ print(sys_stream'["stdout"], T_STARTED)

\* logger_manager.start()
Start ==
    /\ mpc = "idle"
    /\ nStarts < MaxStarts
    /\ start
    /\ lastOp' = "start"
    /\ UNCHANGED <<settings, closeCalls, emitted, wbatch, mpc, mop, nStops,
                   prevWasStop, stopCloses, preStop>>

\* stop() is entered, from the host or from reload(): self.stop_event.set()
\* and self.stop_interception()
StopBegin ==
    /\ mpc = "idle"
    /\ nStops < MaxStops
    /\ \E op \in { "stop", "reload" } :
         /\ op = "reload" => nStarts < MaxStarts
         /\ mop' = op
    /\ nStops' = nStops + 1
    /\ stop_event' = TRUE
    /\ stop_interception
    /\ mpc' = "join"
    /\ prevWasStop' = (lastOp = "stop")
    /\ stopCloses' = 0
    /\ preStop' = LifeState
    /\ UNCHANGED <<settings, handlers, sinkOpen, closeCalls, emitted, logger,
                   file_handler, syslog_handler, processing_thread, original,
                   interceptor, wpc, wbatch, nStarts, lastOp, bufVars>>

\* if self.processing_thread and self.processing_thread.is_alive():
\*     self.processing_thread.join(timeout=2.0)
\* join returns when the thread has ended or when the two seconds are over
StopJoin ==
    /\ mpc = "join"
    /\ mpc' = "final"
    /\ UNCHANGED <<envVars, selfVars, wpc, wbatch, mop, nStarts, nStops,
                   histVars, bufVars>>

\* the loop of the final pass; an exception that leaves logger.log ends it
RECURSIVE LogAll(_, _, _)
LogAll(em, messages, via) ==
    IF messages = <<>> THEN [em |-> em, raised |-> FALSE]
    ELSE IF Strip(Head(messages).text) # <<>>
    THEN LET r == logger_log(em, Head(messages), via) IN
         IF r.raised THEN r ELSE LogAll(r.em, Tail(messages), via)
    ELSE LogAll(em, Tail(messages), via)

\* "Process remaining logs": with a logger, get_all and one logger.log per
\* message that is not blank.  Nothing in stop() catches an exception: one
\* that leaves logger.log ends stop(), and the reload() that called it.
StopFinal ==
    /\ mpc = "final"
    /\ LET r == LogBuffer_get_all(queue, <<>>)
           l == IF logger THEN LogAll(emitted, r.messages, "final")
                ELSE [em |-> emitted, raised |-> FALSE]
       IN  /\ queue' = IF logger THEN r.q ELSE queue
           /\ emitted' = l.em
           /\ IF l.raised
              THEN /\ mpc' = "idle"
                   /\ mop' = "none"
                   /\ lastOp' = "stop"
              ELSE /\ mpc' = "close"
                   /\ UNCHANGED <<mop, lastOp>>
    /\ UNCHANGED <<settings, handlers, sinkOpen, closeCalls, sys_stream,
                   selfVars, wpc, wbatch, nStarts, nStops, prevWasStop,
                   stopCloses, preStop, nextId>>

\* "Close handlers": close() and removeHandler for each handler field that
\* is set; the fields keep their values.  Then print("ST Logger: Stopped").
close_handlers(held) ==
    /\ closeCalls' = [h \in Sinks |-> IF h \in held THEN closeCalls[h] + 1
                                      ELSE closeCalls[h]]
    /\ sinkOpen' = [h \in Sinks |-> IF h \in held THEN FALSE ELSE sinkOpen[h]]
    /\ handlers' = handlers \ held

\* the handlers the fields of the manager refer to
Held == { file_handler, syslog_handler } \ { NoHandler }

StopClose ==
    /\ mpc = "close"
    /\ close_handlers(Held)
    /\ stopCloses' = Cardinality(Held)
    /\ IF mop = "reload"
       THEN /\ mpc' = "start"
            /\ UNCHANGED <<mop, lastOp>>
       ELSE /\ mpc' = "idle"
            /\ mop' = "none"
            /\ lastOp' = "stop"
    /\ print(sys_stream["stdout"], T_STOPPED)
    /\ UNCHANGED <<settings, emitted, sys_stream, selfVars, wpc, wbatch,
                   nStarts, nStops, prevWasStop, preStop>>

\* reload(): self.start() after self.stop()
ReloadStart ==
    /\ mpc = "start"
    /\ start
    /\ mpc' = "idle"
    /\ mop' = "none"
    /\ lastOp' = "start"
    /\ UNCHANGED <<settings, closeCalls, emitted, wbatch, nStops,
                   prevWasStop, stopCloses, preStop>>

\* process_logs: `while not self.stop_event.is_set()`.  The worker comes
\* here from self.stop_event.wait(0.1), which is over after 100 ms or at once
\* when the event is set.
WorkerTop(w) ==
    /\ wpc[w] = "top"
    /\ wpc' = [wpc EXCEPT ![w] = IF stop_event THEN "dead" ELSE "drain"]
    /\ UNCHANGED <<envVars, selfVars, wbatch, mpc, mop, nStarts, nStops,
                   histVars, bufVars>>

\* messages = self.log_buffer.get_all()
WorkerDrain(w) ==
    /\ wpc[w] = "drain"
    /\ LET r == LogBuffer_get_all(queue, <<>>) IN
       /\ queue' = r.q
       /\ wbatch' = [wbatch EXCEPT ![w] = r.messages]
       /\ wpc' = [wpc EXCEPT ![w] = IF r.messages = <<>> THEN "top" ELSE "each"]
    /\ UNCHANGED <<envVars, selfVars, mpc, mop, nStarts, nStops, histVars, nextId>>

\* one turn of `for message in messages`: the blank test, parse_severity,
\* the min_severity_level test, `if self.logger`, self.logger.log.  The try
\* of process_logs is around the whole loop: an exception that leaves
\* logger.log goes to `except Exception: pass`, past the rest of the batch
\* and the wait, and back to the test of the while.
WorkerEach(w) ==
    /\ wpc[w] = "each"
    /\ LET message == Head(wbatch[w])
           severity == severity_of[message.text]
           min_level == severity_map(settings.min_severity_level)
           r == IF /\ Strip(message.text) # <<>>
                   /\ severity >= min_level
                   /\ logger
                THEN logger_log(emitted, message, "cycle")
                ELSE [em |-> emitted, raised |-> FALSE]
           rest == IF r.raised THEN <<>> ELSE Tail(wbatch[w])
       IN  /\ emitted' = r.em
           /\ wbatch' = [wbatch EXCEPT ![w] = rest]
           /\ wpc' = [wpc EXCEPT ![w] = IF rest = <<>> THEN "top" ELSE "each"]
    /\ UNCHANGED <<settings, handlers, sinkOpen, closeCalls, sys_stream,
                   selfVars, mpc, mop, nStarts, nStops, histVars, bufVars>>

-----------------------------------------------------------------------------
(* SpecRel: reload() called from two threads of the host.  The manager has *)
(* no lock: each caller runs stop() and then start(), a method call of     *)
(* their bodies at a step, while the other caller and the workers run.     *)

\* the variables of the host's single thread and of its history
hostVars == <<mpc, mop, nStops, histVars>>

\* reload() is entered, stop() is entered: self.stop_event.set() and
\* self.stop_interception()
RelStopBegin(c) ==
    /\ rpc[c] = "idle"
    /\ stop_event' = TRUE
    /\ stop_interception
    /\ rpc' = [rpc EXCEPT ![c] = "final"]
    /\ UNCHANGED <<settings, handlers, sinkOpen, closeCalls, emitted, logger,
                   file_handler, syslog_handler, processing_thread, original,
                   interceptor, wpc, wbatch, nStarts, hostVars, rgen, bufVars>>

\* the bounded join and "Process remaining logs"
RelStopFinal(c) ==
    /\ rpc[c] = "final"
    /\ LET r == LogBuffer_get_all(queue, <<>>)
           l == IF logger THEN LogAll(emitted, r.messages, "final")
                ELSE [em |-> emitted, raised |-> FALSE]
       IN  /\ queue' = IF logger THEN r.q ELSE queue
           /\ emitted' = l.em
           /\ rpc' = [rpc EXCEPT ![c] = IF l.raised THEN "done" ELSE "close"]
    /\ UNCHANGED <<settings, handlers, sinkOpen, closeCalls, sys_stream,
                   selfVars, wpc, wbatch, nStarts, hostVars, rgen, nextId>>

\* "Close handlers" and the print; stop() returns
RelStopClose(c) ==
    /\ rpc[c] = "close"
    /\ close_handlers(Held)
    /\ print(sys_stream["stdout"], T_STOPPED)
    /\ rpc' = [rpc EXCEPT ![c] = "setup"]
    /\ UNCHANGED <<settings, emitted, sys_stream, selfVars, wpc, wbatch,
                   nStarts, hostVars, rgen>>

\* start() is entered: load_settings, the enabled test and its print, or
\* setup_logger
RelSetup(c) ==
    /\ rpc[c] = "setup"
    /\ nStarts < MaxStarts
    /\ nStarts' = nStarts + 1
    /\ rgen' = [rgen EXCEPT ![c] = nStarts + 1]
    /\ IF ~settings.enabled
       THEN /\ print(sys_stream["stdout"], T_DISABLED)
            /\ rpc' = [rpc EXCEPT ![c] = "done"]
            /\ UNCHANGED <<handlers, sinkOpen, logger, file_handler, syslog_handler>>
       ELSE /\ setup_logger(nStarts + 1)
            /\ rpc' = [rpc EXCEPT ![c] = "intercept"]
            /\ UNCHANGED bufVars
    /\ UNCHANGED <<settings, closeCalls, emitted, sys_stream, processing_thread,
                   stop_event, original, interceptor, enabled, wpc, wbatch,
                   hostVars>>

\* start_interception: `if self.enabled: return`
RelIntercept(c) ==
    /\ rpc[c] = "intercept"
    /\ rpc' = [rpc EXCEPT ![c] = IF enabled THEN "launch" ELSE "install"]
    /\ UNCHANGED <<envVars, selfVars, wpc, wbatch, nStarts, hostVars, rgen, bufVars>>

\* start_interception, after the test
RelInstall(c) ==
    /\ rpc[c] = "install"
    /\ install(rgen[c])
    /\ rpc' = [rpc EXCEPT ![c] = "launch"]
    /\ UNCHANGED <<settings, handlers, sinkOpen, closeCalls, emitted, logger,
                   file_handler, syslog_handler, processing_thread, stop_event,
                   wpc, wbatch, nStarts, hostVars, rgen, bufVars>>

\* self.stop_event.clear(), the new thread, the print; start() and reload()
\* return
RelLaunch(c) ==
    /\ rpc[c] = "launch"
    /\ stop_event' = FALSE
    /\ processing_thread' = rgen[c]
    /\ wpc' = [wpc EXCEPT ![rgen[c]] = "top"]
    /\ print(sys_stream["stdout"], T_STARTED)
    /\ rpc' = [rpc EXCEPT ![c] = "done"]
    /\ UNCHANGED <<envVars, logger, file_handler, syslog_handler, original,
                   interceptor, enabled, wbatch, nStarts, hostVars, rgen>>

-----------------------------------------------------------------------------
(* The specifications.  Each leaves the variables of the others at rest.   *)

SevRest == sevMsg = <<>> /\ sevOut = 0
SeqRest == seqLog = <<>> /\ seqLogAt = <<>> /\ seqResult = <<>> /\ seqDone = FALSE

StreamRest == streamRaises = FALSE /\ flushOutcome = "none"

\* the manager as constructed and never started, with the settings file as
\* shipped
MgrRest == MgrInit /\ settings = BaseSettings /\ sinkFails = {}

Init == BufInit /\ StreamInit /\ SevRest /\ SeqRest /\ MgrRest

Next ==
    \/ \E p \in Producers : CallWrite(p)
    \/ \E p \in Producers : Put(p)
    \/ \E p \in Producers : Evict(p)
    \/ \E p \in Producers : Reput(p)
    \/ \E p \in Producers : Flush(p)
    \/ \E d \in Drainers : CallGetAll(d)
    \/ \E d \in Drainers : Get(d)
    \/ \E d \in Drainers : Test(d)

Spec == Init /\ [][Next]_vars

\* one thread writes through the stdout interceptor, empty and
\* whitespace-only messages among the others, while the worker calls get_all
InitBlank == BufInit /\ StreamRest /\ SevRest /\ SeqRest /\ MgrRest

NextBlank ==
    \/ CallWriteOf("stdout", BlankRunTexts)
    \/ Put("stdout")
    \/ Evict("stdout")
    \/ Reput("stdout")
    \/ CallGetAll("worker")
    \/ Get("worker")
    \/ Test("worker")

SpecBlank == InitBlank /\ [][NextBlank]_vars

InitSeq == BufInit /\ StreamRest /\ SevRest /\ SeqInit /\ MgrRest

NextSeq ==
    \/ SeqWrite /\ UNCHANGED <<sevVars, prodVars, drainVars, mgrVars>>
    \/ SeqGetAll /\ UNCHANGED <<sevVars, prodVars, drainVars, mgrVars>>

SpecSeq == InitSeq /\ [][NextSeq]_vars

InitSev == BufInit /\ StreamRest /\ SeqRest /\ SevInit /\ MgrRest

NextSev ==
    \/ Classify /\ UNCHANGED <<bufVars, seqVars, prodVars, drainVars, mgrVars>>
    \/ NextMessage /\ UNCHANGED <<bufVars, seqVars, prodVars, drainVars, mgrVars>>

SpecSev == InitSev /\ [][NextSev]_vars

\* every sink works
SinksWork == sinkFails = {}

InitMgr ==
    /\ BufInit /\ StreamRest /\ SevRest /\ SeqRest /\ MgrInit /\ SinksWork
    /\ settings \in Configs

bufRest == <<sevVars, seqVars, prodVars, drainVars, faultVars, relVars>>

NextMgr ==
    \/ EditSettings /\ UNCHANGED bufRest
    \/ HostWrite /\ UNCHANGED bufRest
    \/ Start /\ UNCHANGED bufRest
    \/ StopBegin /\ UNCHANGED bufRest
    \/ StopJoin /\ UNCHANGED bufRest
    \/ StopFinal /\ UNCHANGED bufRest
    \/ StopClose /\ UNCHANGED bufRest
    \/ ReloadStart /\ UNCHANGED bufRest
    \/ \E w \in Workers : WorkerTop(w) /\ UNCHANGED bufRest
    \/ \E w \in Workers : WorkerDrain(w) /\ UNCHANGED bufRest
    \/ \E w \in Workers : WorkerEach(w) /\ UNCHANGED bufRest

SpecMgr == InitMgr /\ [][NextMgr]_vars

\* the calls of the host alone: start(), stop() and reload() in any order,
\* the settings edited between them; the workers are not scheduled
NextLife ==
    \/ EditSettings /\ UNCHANGED bufRest
    \/ Start /\ UNCHANGED bufRest
    \/ StopBegin /\ UNCHANGED bufRest
    \/ StopJoin /\ UNCHANGED bufRest
    \/ StopFinal /\ UNCHANGED bufRest
    \/ StopClose /\ UNCHANGED bufRest
    \/ ReloadStart /\ UNCHANGED bufRest

SpecLife == InitMgr /\ [][NextLife]_vars

\* the calls of the host one at a time, and its writes to stdout and stderr
\* between them
NextWrite ==
    \/ NextLife
    \/ HostWrite /\ UNCHANGED bufRest

SpecWrite == InitMgr /\ [][NextWrite]_vars

\* before the two reload() calls the host may have started the manager
NextRel ==
    \/ Start /\ (\A c \in Callers : rpc[c] = "idle") /\ UNCHANGED bufRest
    \/ \E c \in Callers : RelStopBegin(c) /\ UNCHANGED <<sevVars, seqVars, prodVars, drainVars, faultVars>>
    \/ \E c \in Callers : RelStopFinal(c) /\ UNCHANGED <<sevVars, seqVars, prodVars, drainVars, faultVars>>
    \/ \E c \in Callers : RelStopClose(c) /\ UNCHANGED <<sevVars, seqVars, prodVars, drainVars, faultVars>>
    \/ \E c \in Callers : RelSetup(c) /\ UNCHANGED <<sevVars, seqVars, prodVars, drainVars, faultVars>>
    \/ \E c \in Callers : RelIntercept(c) /\ UNCHANGED <<sevVars, seqVars, prodVars, drainVars, faultVars>>
    \/ \E c \in Callers : RelInstall(c) /\ UNCHANGED <<sevVars, seqVars, prodVars, drainVars, faultVars>>
    \/ \E c \in Callers : RelLaunch(c) /\ UNCHANGED <<sevVars, seqVars, prodVars, drainVars, faultVars>>
    \/ \E w \in Workers : WorkerTop(w) /\ UNCHANGED bufRest
    \/ \E w \in Workers : WorkerDrain(w) /\ UNCHANGED bufRest
    \/ \E w \in Workers : WorkerEach(w) /\ UNCHANGED bufRest

SpecRel == InitMgr /\ [][NextRel]_vars

\* one run of the manager with both sinks enabled, each of which may fail
\* at any moment and work again later
InitSink ==
    /\ BufInit /\ StreamRest /\ SevRest /\ SeqRest /\ MgrInit
    /\ settings \in SinkConfigs
    /\ sinkFails \in SUBSET SinkKinds

\* a sink begins to fail (the disk is full, the network is down) or works
\* again
SinkChange ==
    /\ sinkFails' \in (SUBSET SinkKinds) \ { sinkFails }
    /\ UNCHANGED <<envVars, selfVars, threadVars, histVars, relVars, bufVars>>

sinkRest == <<sevVars, seqVars, prodVars, drainVars>>

NextSink ==
    \/ SinkChange /\ UNCHANGED sinkRest
    \/ HostWrite /\ UNCHANGED sinkRest
    \/ Start /\ nStarts = 0 /\ UNCHANGED bufRest
    \/ StopBegin /\ mop' = "stop" /\ UNCHANGED bufRest
    \/ StopJoin /\ UNCHANGED bufRest
    \/ StopFinal /\ UNCHANGED bufRest
    \/ StopClose /\ UNCHANGED bufRest
    \/ \E w \in Workers : WorkerTop(w) /\ UNCHANGED bufRest
    \/ \E w \in Workers : WorkerDrain(w) /\ UNCHANGED bufRest
    \/ \E w \in Workers : WorkerEach(w) /\ UNCHANGED bufRest

SpecSink == InitSink /\ [][NextSink]_vars

-----------------------------------------------------------------------------
(* Claims about LogBuffer used by one thread (SpecSeq).                    *)

\* the last n elements of a sequence
LastN(s, n) == SubSeq(s, Len(s) - n + 1, Len(s))

\* C1: with no concurrent activity, a get_all that follows n > Capacity
\* non-blank writes returns exactly the last Capacity messages written, in
\* the order they were written.
C1_DrainReturnsLastCapacity ==
    (seqDone /\ Len(seqLogAt) > Capacity) => seqResult = LastN(seqLogAt, Capacity)

\* C1 witness: a get_all has been made after more than Capacity non-blank
\* writes.
C1_Witness == seqDone /\ Len(seqLogAt) > Capacity /\ Len(seqResult) = Capacity

-----------------------------------------------------------------------------
(* Claims about the interceptors and the buffer under interleaving (Spec). *)

Finished(c) == c.outcome \in { "returned", "raised" }

Enqueued(i) == \E k \in 1..Len(enqOrder) : enqOrder[k] = i

\* position of a message in the order of admission
EnqPos(i) == CHOOSE k \in 1..Len(enqOrder) : enqOrder[k] = i

\* C2: LogBuffer.write never raises to its caller, in any interleaving of
\* writes through the two interceptors with get_all calls, also when the
\* buffer is at capacity.
C2_WriteNeverRaises == \A i \in Ids : calls[i].outcome # "raised"

\* C3: in every reachable state the number of messages held by LogBuffer is
\* at most its capacity.
C3_SizeAtMostCapacity == Len(queue) <= Capacity

\* C3 witness: the buffer is full and a writer has just been refused by
\* put_nowait.
C3_Witness == Len(queue) = Capacity /\ \E p \in Producers : pc[p] = "evict"

\* C4: every written message is returned by at most one get_all and at most
\* once within it; each get_all result lists its messages in the order they
\* were admitted; a get_all that begins after another get_all returned, with
\* no message admitted in between, returns the empty sequence.
C4_DrainNoDuplicateInOrder ==
    /\ \A i \in Ids : taken[i] <= 1
    /\ \A d \in Drainers : \A j, k \in 1..Len(dmsgs[d]) :
         j < k => EnqPos(dmsgs[d][j].id) < EnqPos(dmsgs[d][k].id)
    /\ \A d \in Drainers : (dpc[d] = "idle" /\ quietStart[d]) => dmsgs[d] = <<>>

\* C4 witness: one get_all returned two messages, and a get_all that directly
\* followed a get_all has returned.
C4_Witness ==
    /\ \E d \in Drainers : dpc[d] = "idle" /\ Len(dmsgs[d]) >= 2
    /\ \E d \in Drainers : dpc[d] = "idle" /\ quietStart[d]

\* C5: ConsoleInterceptor.write(message) always returns len(message) and
\* passes the unmodified message to the wrapped stream's write exactly once,
\* whatever the fill level of the buffer.
C5_WriteReturnsLenAndMirrorsOnce ==
    \A i \in Ids : calls[i].outcome \notin { "none", "pending" } =>
        /\ calls[i].outcome = "returned"
        /\ calls[i].retval = Len(calls[i].text)
        /\ calls[i].mirror = << calls[i].text >>

\* C6: when the wrapped stream's write or flush raises, ConsoleInterceptor
\* .write and flush raise nothing, write still returns the input length, and
\* a non-blank message is still enqueued into the buffer.
C6_StreamErrorsAbsorbed ==
    /\ flushOutcome # "raised"
    /\ \A i \in Ids : (calls[i].streamRaised /\ Finished(calls[i])) =>
        /\ calls[i].outcome = "returned"
        /\ calls[i].retval = Len(calls[i].text)
        /\ NonBlank(calls[i].text) => Enqueued(i)

-----------------------------------------------------------------------------
(* Claims about parse_severity (SpecSev).                                  *)

HasAny(s, keywords) == \E x \in keywords : Contains(Upper(s), x)

\* C9: parse_severity is decided by which keywords occur in the upper-cased
\* message, first match wins: CRITICAL for CRITICAL or FATAL; else ERROR for
\* ERROR, EXCEPTION or TRACEBACK; else WARNING for WARNING or WARN; else
\* DEBUG for DEBUG; else INFO.
C9_SeverityPrecedence ==
    sevOut # 0 =>
        LET crit == HasAny(sevMsg, {K_CRITICAL, K_FATAL})
            err == HasAny(sevMsg, {K_ERROR, K_EXCEPTION, K_TRACEBACK})
            warn == HasAny(sevMsg, {K_WARNING, K_WARN})
            dbg == HasAny(sevMsg, {K_DEBUG})
        IN  /\ crit => sevOut = CRITICAL
            /\ (~crit /\ err) => sevOut = ERROR
            /\ (~crit /\ ~err /\ warn) => sevOut = WARNING
            /\ (~crit /\ ~err /\ ~warn /\ dbg) => sevOut = DEBUG
            /\ (~crit /\ ~err /\ ~warn /\ ~dbg) => sevOut = INFO

\* C9 witness: a message in lower case that holds a CRITICAL keyword and an
\* ERROR keyword has been classified.
C9_Witness ==
    /\ sevOut = CRITICAL
    /\ Contains(sevMsg, <<"f","a","t","a","l">>)
    /\ HasAny(sevMsg, {K_ERROR, K_EXCEPTION, K_TRACEBACK})

-----------------------------------------------------------------------------
(* Claims about the manager, its worker and its sinks (SpecMgr).           *)

\* every record a sink was given
EmittedRecords ==
    UNION { { emitted[h][k] : k \in 1..Len(emitted[h]) } : h \in Sinks }

\* C7: a message that matches a configured exclusion rule (exclude_wildcards,
\* exclude_patterns, exclude_regex) is never emitted to any sink, neither by
\* the worker's cycle nor by the final pass of stop(), whatever its severity.
C7_ExcludedNeverEmitted == \A r \in EmittedRecords : ~r.excluded

\* C8: a message whose severity is below the configured min_severity_level
\* is never emitted to any sink, neither by the worker's cycle nor by the
\* final pass of stop().
C8_BelowMinimumNeverEmitted == \A r \in EmittedRecords : r.level >= r.min

\* C10: stop() called twice in succession, with no start in between: the
\* second stop() invokes close() on no sink and changes no lifecycle state.
C10_SecondStopClosesNothing ==
    (mpc = "idle" /\ lastOp = "stop" /\ prevWasStop) =>
        (stopCloses = 0 /\ LifeState = preStop)

-----------------------------------------------------------------------------
(* Claims about the lifecycle (SpecMgr).                                   *)

\* the thread of worker w has been started and has not left process_logs
Alive(w) == wpc[w] \notin { "unborn", "dead" }

AliveWorkers == { w \in Workers : Alive(w) }

\* the manager is Running: started, and not stopped since
Running == enabled /\ processing_thread # NoThread /\ ~stop_event

\* a step that is a whole start() called by the host (not by reload)
HostStartStep == mpc = "idle" /\ mpc' = "idle" /\ nStarts' = nStarts + 1

\* C11: start() called while the manager is Running is a no-op: no second
\* worker is started, no new sink is constructed, and the open sinks, the
\* installed interceptors and the recorded original streams are unchanged,
\* so that at most one worker is alive after it.
C11_StartWhileRunningIsNoOp ==
    [][ (HostStartStep /\ Running /\ settings.enabled) =>
          /\ wpc' = wpc
          /\ sinkOpen' = sinkOpen
          /\ handlers' = handlers
          /\ sys_stream' = sys_stream
          /\ interceptor' = interceptor
          /\ original' = original
          /\ Cardinality(AliveWorkers') <= 1 ]_vars

\* the workers that were ever started
Started == { w \in Workers : wpc[w] # "unborn" }

\* the step in which reload()'s start() runs
ReloadStartStep == mpc = "start" /\ mpc' = "idle"

\* the handler objects made by the start() numbered g
BuiltBy(g) == { FileHandler(g), SyslogHandler(g) }

\* C12: reload() from Running or from Stopped, with the configuration
\* enabled, ends as one start() from Stopped does: exactly one worker alive
\* (the one of the previous run has exited), the interceptors installed once
\* over the original streams, only the sinks built by this start open; for
\* every outcome of stop()'s bounded wait.  The reload is taken from a
\* manager that was started at most once before.
C12_ReloadEndsAsOneStart ==
    [][ (ReloadStartStep /\ settings.enabled /\ Cardinality(Started) <= 1) =>
          /\ AliveWorkers' = { nStarts' }
          /\ \A s \in StreamNames :
               /\ sys_stream'[s].kind = "interceptor"
               /\ sys_stream'[s].original_stream = Real(s)
          /\ { h \in Sinks : sinkOpen'[h] } \subseteq BuiltBy(nStarts')
          /\ { h \in Sinks : sinkOpen'[h] } = handlers' ]_vars

-----------------------------------------------------------------------------
(* Claims about reload() called from two threads (SpecRel).                *)

\* caller c is inside reload()
InReload(c) == rpc[c] \notin { "idle", "done" }

\* C13: two reload() calls from different threads are serialized, their
\* stop and start steps do not interleave; after both have returned exactly
\* one worker is alive, no sink is open that the manager no longer refers
\* to, and the recorded original streams are the real ones, not an
\* interceptor (the configuration being enabled).
C13_ReloadsSerialized ==
    /\ Cardinality({ c \in Callers : InReload(c) }) <= 1
    /\ (settings.enabled /\ \A c \in Callers : rpc[c] = "done") =>
         /\ Cardinality(AliveWorkers) = 1
         /\ { h \in Sinks : sinkOpen[h] } \subseteq Held
         /\ \A s \in StreamNames : original[s] = Real(s)

-----------------------------------------------------------------------------
(* Claims about stop() and the messages (SpecMgr).                         *)

\* the step in which stop() closes the handlers it holds
StopCloseStep == mpc = "close" /\ mpc' # "close" /\ stopCloses' > 0

\* C14: on stop(), every message buffered before the interceptors were
\* uninstalled is dispatched (or filtered) before any sink is closed: when
\* stop() closes the sinks no captured message is left in the buffer or in
\* the hands of a worker; and no emit is made on a sink that is closed.  The
\* manager was started at most once.
C14_DispatchedBeforeClose ==
    [][ /\ (StopCloseStep /\ Cardinality(Started) <= 1) =>
             (queue = <<>> /\ \A w \in Workers : wbatch[w] = <<>>)
        /\ \A h \in Sinks : ~sinkOpen[h] => emitted'[h] = emitted[h] ]_vars

-----------------------------------------------------------------------------
(* Claims about the sinks (SpecSink).                                      *)

\* the message passes the tests process_logs makes before logger.log
Accepted(m) ==
    /\ Strip(m.text) # <<>>
    /\ severity_of[m.text] >= severity_map(settings.min_severity_level)
    /\ logger

\* handler h's emit was called with message i
Called(h, i) == \E k \in 1..Len(emitted[h]) : emitted[h][k].id = i

\* every handler the logger had when a record was made was called with it
AllSinksCalled ==
    \A h \in Sinks : \A k \in 1..Len(emitted[h]) :
        \A h2 \in emitted[h][k].sinks : Called(h2, emitted[h][k].id)

-----------------------------------------------------------------------------
(* Claims about the end of the worker (SpecMgr).                           *)

\* the stop() in progress or last made was called on a Running manager
StoppedFromRunning ==
    /\ preStop # <<>>
    /\ preStop[1] /\ ~preStop[3] /\ preStop[4] # NoThread

\* stop() has just returned, to the host or to reload()
StopReturned == (mpc = "idle" /\ lastOp = "stop") \/ mpc = "start"

\* C16: after stop() is called on a Running manager the worker leaves its
\* loop and is no longer alive when stop() returns.  The manager was started
\* once, so the worker is the one of that run.
C16_WorkerEndedWhenStopReturns ==
    (StopReturned /\ StoppedFromRunning /\ Cardinality(Started) <= 1) =>
        AliveWorkers = {}

\* C17: when the loaded configuration has enabled = false, start() leaves
\* the lifecycle state unchanged: the streams of the process are not
\* swapped, no sink is constructed or opened, no worker is started, and the
\* buffer is not modified.
C17_DisabledStartChangesNothing ==
    [][ (HostStartStep /\ ~settings.enabled) =>
          /\ LifeState' = LifeState
          /\ wpc' = wpc
          /\ queue' = queue ]_vars

-----------------------------------------------------------------------------
(* Claims about the streams of the process (SpecLife).                     *)

\* a step in which start_interception installs the interceptors
InstallStep == ~enabled /\ enabled'

\* a step in which stop() is entered and calls stop_interception
StopInterceptionStep == mpc = "idle" /\ mpc' = "join"

\* the streams of the process as they were before the first start()
RealStreams == [s \in StreamNames |-> Real(s)]

\* C18: installing records the current stdout and stderr of the process and
\* uninstalling restores exactly those; stop_interception when not installed
\* leaves the streams of the process unchanged.  Hence after any sequence of
\* start, stop and reload on one manager that ends with stop(), stdout and
\* stderr are the streams that were in place before the first start.
C18_StreamsRestored ==
    /\ []((mpc = "idle" /\ lastOp = "stop") => sys_stream = RealStreams)
    /\ [][ /\ InstallStep => original' = sys_stream
           /\ (StopInterceptionStep /\ enabled) => sys_stream' = original
           /\ (StopInterceptionStep /\ ~enabled) => sys_stream' = sys_stream ]_vars

\* C18 witness: a stop() has returned after two start() and two stop(), one
\* start made while the interceptors were installed, and the streams are the
\* real ones.
C18_Witness ==
    /\ mpc = "idle" /\ lastOp = "stop"
    /\ nStarts >= 2 /\ nStops >= 2
    /\ \A s \in StreamNames : interceptor[s] # NoStream /\ original[s] = Real(s)
    /\ sys_stream = RealStreams
    /\ Cardinality(AliveWorkers) = 2

-----------------------------------------------------------------------------
(* Claims about the buffer under interleaving, continued (Spec).           *)

\* C19: a non-blank write() to a full LogBuffer admits the new message: once
\* write() has returned, the message has been put into the buffer (where it
\* stays until a get_all takes it or a later write evicts it); it is never
\* discarded, also when a get_all runs between the refused insert and the
\* eviction.  A write that finds room admits its message at once, so the
\* property is stated for every write that returned.
C19_FullWriteAdmitsMessage ==
    \A i \in Ids :
        (calls[i].outcome = "returned" /\ NonBlank(calls[i].text)) => Enqueued(i)

-----------------------------------------------------------------------------
(* Claims about the order of the messages in the sinks (SpecMgr).          *)

\* C20: each sink receives the accepted messages as a duplicate-free
\* subsequence of the order in which they were enqueued, the messages of
\* stop()'s final pass included: the messages a sink was given are in the
\* order of their writes, none twice.  The writes are numbered in the order
\* they enter the buffer; the manager was started at most once.
C20_SinkOrderIsBufferOrder ==
    Cardinality(Started) <= 1 =>
        \A h \in Sinks : \A j, k \in 1..Len(emitted[h]) :
            j < k => emitted[h][j].id < emitted[h][k].id

-----------------------------------------------------------------------------
(* Claims about blank messages (SpecBlank).                                *)

\* the message is empty or made of whitespace only
IsBlankText(t) == \A k \in 1..Len(t) : IsSpace(t[k])

\* the step is the call of ConsoleInterceptor.write numbered i
WriteCalled(i) == calls[i].outcome = "none" /\ calls'[i].outcome # "none"

\* C21: an empty or whitespace-only message never changes the buffer:
\* ConsoleInterceptor.write and LogBuffer.write leave the contents of the
\* buffer unchanged for it, with no insertion and no eviction, also when
\* the buffer is full, while the interceptor still passes it to the wrapped
\* stream.
C21_BlankLeavesBuffer ==
    /\ [](\A i \in Ids : (calls[i].outcome # "none" /\ IsBlankText(calls[i].text)) =>
             /\ calls[i].outcome = "returned"
             /\ ~Enqueued(i)
             /\ calls[i].mirror = << calls[i].text >>)
    /\ [](\A t \in BlankRunTexts :
             IsBlankText(t) => LogBuffer_write(queue, [id |-> 0, text |-> t]).q = queue)
    /\ [][ \A i \in Ids : (WriteCalled(i) /\ IsBlankText(calls'[i].text)) =>
             (queue' = queue /\ enqOrder' = enqOrder) ]_vars

\* C21 witness: the buffer is full, and the empty message and the
\* whitespace-only one have both been written after the messages it holds.
C21_Witness ==
    /\ Len(queue) = Capacity
    /\ \E i, j \in Ids :
         /\ calls[i].outcome = "returned" /\ calls[i].text = <<>>
         /\ calls[j].outcome = "returned" /\ calls[j].text = <<" ", "\t", "\n">>
         /\ \A k \in 1..Len(queue) : queue[k].id < i /\ queue[k].id < j

-----------------------------------------------------------------------------
(* Claims about the installed interceptors (SpecWrite).                    *)

\* the streams of the process are this manager's current interceptors
Installed(s) == sys_stream[s].kind = "interceptor" /\ sys_stream[s] = interceptor[s]

\* how many times one write to the stream reaches a real stream: an
\* interceptor passes the message to the stream it wraps
RECURSIVE real_writes(_)
real_writes(stream) ==
    IF stream.kind = "interceptor" THEN real_writes(stream.original_stream)
    ELSE IF stream.kind = "real" THEN 1 ELSE 0

\* how many times message i is in the buffer
RECURSIVE InQueue(_, _)
InQueue(q, i) ==
    IF q = <<>> THEN 0
    ELSE (IF Head(q).id = i THEN 1 ELSE 0) + InQueue(Tail(q), i)

\* a step in which a message is written through an interceptor: a write of
\* the host to stdout or stderr, or a print of start() or stop()
InterceptedWriteStep == nextId' = nextId + 1

\* C22: for any sequence of start, stop and reload calls made one at a time
\* on one manager, the enabled flag is true exactly when stdout and stderr
\* of the process are this manager's current interceptors, and the stream
\* wrapped by an installed interceptor is never an interceptor; so each
\* write of the host reaches the real stream exactly once and is enqueued
\* at most once.
C22_EnabledIffInstalled ==
    /\ [](/\ enabled <=> (\A s \in StreamNames : Installed(s))
          /\ enabled <=> (\E s \in StreamNames : sys_stream[s].kind = "interceptor")
          /\ \A s \in StreamNames :
               /\ sys_stream[s].kind = "interceptor" =>
                    sys_stream[s].original_stream.kind # "interceptor"
               /\ real_writes(sys_stream[s]) = 1)
    /\ [][ InterceptedWriteStep => InQueue(queue', nextId) <= 1 ]_vars

\* C22 witness: after a start, a stop and a second start the interceptors
\* are installed and the host's last write went through one of them into the
\* buffer.
C22_Witness ==
    /\ enabled /\ nStarts >= 2 /\ nStops >= 1 /\ mpc = "idle"
    /\ \A s \in StreamNames : Installed(s) /\ sys_stream[s].gen = 2
    /\ \E k \in 1..Len(queue) : queue[k].id = nextId - 1 /\ queue[k].text \in MgrTexts

=============================================================================
